---- MODULE Spec2Model ----
(***************************************************************************)
(* The OVN load-balancer drivers of neutron-lbaas                          *)
(*   src/neutron_lbaas/drivers/ovn/driver.py          (native-only)        *)
(*   src/neutron_lbaas/drivers/ovn/driver_octavia.py  (fallback-capable)   *)
(* as a state machine: the host's load-balancer objects, the Load_Balancer *)
(* rows of the OVN northbound store, and one action per lifecycle event,   *)
(* each running the whole handler the host dispatches the event to.        *)
(***************************************************************************)
EXTENDS Integers, Sequences, FiniteSets, TLC

\* ------------------------------------------------------------- bounds
\* Members the host may create: ids 1..MaxMembers.
MaxMembers == 5
\* Store or inventory calls that fail in one behaviour of SpecFault.
MaxFaults == 1
\* Rows a db_find result may hold in SpecFind.
MaxRows == 3
\* Events the host delivers a second time in one behaviour of SpecRetry.
MaxRedeliveries == 1
\* Listeners the host holds at a time.
MaxListeners == 2
\* Health monitors the host holds at a time.
MaxHealthMonitors == 1
\* Members the pool under L1 holds when two handlers start to run at once.
MaxSeeded == 2
\* Endpoints in a list handed to the codec in SpecCodec.
MaxEndpoints == 3

\* ------------------------------------------------------ the host's objects
\* One load balancer: its vip_address and vip_subnet_id.
vip_address == "v"
vip_subnet_id == "S0"

PROTOCOL_TCP == "TCP"
PROTOCOL_HTTP == "HTTP"

\* Listeners: two TCP listeners of the load balancer and one HTTP listener.
\* A listener has one pool (pool.listener), which has the listener's protocol.
Listeners == {"L1", "L2", "L3"}
Protocol(l) == IF l = "L3" THEN PROTOCOL_HTTP ELSE PROTOCOL_TCP
ProtocolPort(l) == CASE l = "L1" -> "80" [] l = "L2" -> "81" [] OTHER -> "82"

Members == 1 .. MaxMembers
\* member.pool.listener.id
ListenerOf(m) == CASE m \in {1, 2, 3} -> "L1" [] m = 5 -> "L3" [] OTHER -> "L2"
\* member.subnet_id: two members of L1 share S1, a third is on S2, the
\* member of L2 is on the load balancer's own VIP subnet.
SubnetOf(m) == CASE m \in {1, 2} -> "S1" [] m = 3 -> "S2" [] m = 4 -> vip_subnet_id
                 [] OTHER -> "S1"
AddrChars == <<"a", "b", "c", "d", "e", "f", "g", "h">>
\* member.address, member.protocol_port
Address(m) == AddrChars[m]
MemberPort(m) == "1"

\* core_plugin.get_subnet(subnet_id)['network_id']: S1 and S2 are two subnets
\* of one network.
NetworkOf(s) == IF s = vip_subnet_id THEN "N0" ELSE "N1"
Subnets == {"S0", "S1", "S2"}
\* ls_name = "neutron-" + network_id; ls_get(ls_name) is that logical switch.
LsName(s) == <<"neutron-", NetworkOf(s)>>
Segments == {LsName(s) : s \in Subnets}

\* ------------------------------------------------------------ strings
\* A string is the sequence of its characters; Comma is the separator of the
\* store's vips field.
Comma == ","
Colon == ":"

\* vip = vip_address + ':' + str(protocol_port)
Vip(l) == <<vip_address, Colon, ProtocolPort(l)>>
\* ip = member.address + ':' + str(member.protocol_port)
Ip(m) == <<Address(m), Colon, MemberPort(m)>>

RECURSIVE SplitFrom(_, _, _)
SplitFrom(s, i, cur) ==
    IF i > Len(s) THEN <<cur>>
    ELSE IF s[i] = Comma THEN <<cur>> \o SplitFrom(s, i + 1, <<>>)
    ELSE SplitFrom(s, i + 1, Append(cur, s[i]))
\* str.split(','): "".split(',') is [''].
split(s) == SplitFrom(s, 1, <<>>)

RECURSIVE join(_)
\* ','.join(ips): the field lb_add stores for a list of endpoints.
join(ips) ==
    IF ips = <<>> THEN <<>>
    ELSE IF Len(ips) = 1 THEN ips[1]
    ELSE ips[1] \o <<Comma>> \o join(Tail(ips))

\* A reading that splits every field, the empty one too.
decode_always_split(field) == split(field)
\* MemberManager.create's reading of a vips field: an empty field is no
\* endpoint, any other is split at the commas.
decode(field) == IF field # <<>> THEN split(field) ELSE <<>>

InList(x, xs) == \E i \in 1 .. Len(xs) : xs[i] = x
\* A delete that leaves the list as it was.
remove_nothing(xs, x) == xs
RECURSIVE remove(_, _)
\* list.remove(x): drops the first occurrence.
remove(xs, x) ==
    IF xs = <<>> THEN <<>>
    ELSE IF xs[1] = x THEN Tail(xs)
    ELSE <<xs[1]>> \o remove(Tail(xs), x)

\* ------------------------------------------------------------ the store
\* The Load_Balancer table by name: store[name] is the sequence of rows with
\* that name. A row holds vips (vip -> comma-joined endpoints) and the logical
\* switches it is attached to.
EmptyStore == [l \in Listeners |-> <<>>]
NewRow(name) == [name |-> name, vips |-> <<>>, segs |-> {}]

\* db_find('Load_Balancer', ('name', '=', listener_id))
db_find(st, listener_id) == st[listener_id]

\* may_exist read as "leave an existing entry as it is".
SetVip_keep(row, vip, ips) ==
    IF vip \in DOMAIN row.vips THEN row
    ELSE [row EXCEPT !.vips = [k \in (DOMAIN row.vips) \cup {vip} |->
                                  IF k = vip THEN join(ips) ELSE row.vips[k]]]
SetVip(row, vip, ips) ==
    [row EXCEPT !.vips = [k \in (DOMAIN row.vips) \cup {vip} |->
                             IF k = vip THEN join(ips) ELSE row.vips[k]]]
\* lb_add(lb, vip, ips, may_exist=True, name=lb): creates the row when there
\* is none and replaces its vips[vip].
lb_add(st, name, vip, ips) ==
    [st EXCEPT ![name] =
        <<SetVip(IF st[name] = <<>> THEN NewRow(name) ELSE st[name][1], vip, ips)>>]
\* A delete that leaves the row.
lb_del_kept(st, name) == st
\* lb_del(uuid)
lb_del(st, name) == [st EXCEPT ![name] = <<>>]
\* ls_lb_add(ls, lb, may_exist=True)
ls_lb_add(st, ls, name) ==
    IF st[name] = <<>> THEN st
    ELSE [st EXCEPT ![name] = <<[st[name][1] EXCEPT !.segs = @ \cup {ls}]>>]
\* A detach that takes the switch away from every row.
ls_lb_del_every_row(st, ls, name) ==
    [n \in DOMAIN st |->
        IF st[n] = <<>> THEN <<>> ELSE <<[st[n][1] EXCEPT !.segs = @ \ {ls}]>>]
\* ls_lb_del(ls, lb, if_exists=True)
ls_lb_del(st, ls, name) ==
    IF st[name] = <<>> THEN st
    ELSE [st EXCEPT ![name] = <<[st[name][1] EXCEPT !.segs = @ \ {ls}]>>]

\* ------------------------------------------------- one handler invocation
\* What one invocation has done so far: the store as it left it, the
\* completion signals it emitted, the store and inventory calls it issued in
\* order, the exception that ended it ("none": it returned), and the calls it
\* handed to the base (Octavia) implementation.
Ctx0(st) == [st |-> st, signals |-> <<>>, calls |-> <<>>, exc |-> "none", base |-> <<>>]
Raised(c) == c.exc # "none"
Raise(c, e) == [c EXCEPT !.exc = e]

\* The f-th call the handler issues fails (f = 0: none does): execute(
\* check_error=True) raises, and so may the core plugin's get_subnet.
Call(c, op, f) ==
    [c EXCEPT !.calls = Append(@, op),
              !.exc = IF Len(c.calls) + 1 = f THEN "StoreError" ELSE "none"]
\* A call that writes: the store changes when the call did not fail.
Exec(c, op, f, st) ==
    LET c1 == Call(c, op, f)
    IN  IF Raised(c1) THEN c1 ELSE [c1 EXCEPT !.st = st]

\* driver_base: successful_completion(context, obj, delete=False)
successful_completion(c, obj, delete) ==
    [c EXCEPT !.signals = Append(@, [kind |-> "successful", entity |-> obj,
                                     deleted |-> delete])]
\* driver_base: failed_completion(context, obj)
failed_completion(c, obj) ==
    [c EXCEPT !.signals = Append(@, [kind |-> "failed", entity |-> obj,
                                     deleted |-> FALSE])]

\* Python's None
None == [none |-> TRUE]

\* OVNDriver.ovn_native_protocols
ovn_native_protocols == {PROTOCOL_TCP}

\* ------------------------------------------------------ driver.py
\* OVNDriver.find_ovn_lb, on the result of db_find
find_ovn_lb(ovn_lb) == IF Len(ovn_lb) = 1 THEN ovn_lb[1] ELSE None

\* get_subnet and ls_get only: the ls_lb_add is left out.
AttachSegment_unattached(c, subnet_id, name, f) ==
    LET c1 == Call(c, "get_subnet", f)
    IN  IF Raised(c1) THEN c1 ELSE Call(c1, "ls_get", f)
\* get_subnet, ls_get, ls_lb_add(ovn_ls.uuid, ovn_lb.uuid, may_exist=True)
AttachSegment(c, subnet_id, name, f) ==
    LET c1 == Call(c, "get_subnet", f)
        c2 == Call(c1, "ls_get", f)
    IN  IF Raised(c1) THEN c1
        ELSE IF Raised(c2) THEN c2
        ELSE Exec(c2, "ls_lb_add", f, ls_lb_add(c2.st, LsName(subnet_id), name))
\* get_subnet, ls_get, ls_lb_del(ovn_ls.uuid, ovn_lb.uuid, if_exists=True)
DetachSegment(c, subnet_id, name, f) ==
    LET c1 == Call(c, "get_subnet", f)
        c2 == Call(c1, "ls_get", f)
    IN  IF Raised(c1) THEN c1
        ELSE IF Raised(c2) THEN c2
        ELSE Exec(c2, "ls_lb_del", f, ls_lb_del(c2.st, LsName(subnet_id), name))

LoadBalancerManager_create(c, lb) == successful_completion(c, lb, FALSE)
LoadBalancerManager_update(c, lb) == successful_completion(c, lb, FALSE)
LoadBalancerManager_delete(c, lb) == successful_completion(c, lb, TRUE)

\* PoolManager: the non-native branch names `listener`, which is not bound.
PoolManager_create(c, pool) ==
    IF Protocol(pool[2]) \notin ovn_native_protocols
    THEN Raise(c, "NameError")
    ELSE successful_completion(c, pool, FALSE)
PoolManager_update(c, pool) ==
    IF Protocol(pool[2]) \notin ovn_native_protocols
    THEN Raise(c, "NameError")
    ELSE successful_completion(c, pool, FALSE)
PoolManager_delete(c, pool) == successful_completion(c, pool, TRUE)

HealthMonitorManager_create(c, hm) == successful_completion(c, hm, FALSE)
HealthMonitorManager_update(c, hm) == successful_completion(c, hm, FALSE)
HealthMonitorManager_delete(c, hm) == successful_completion(c, hm, TRUE)

\* A create that writes the row and then reports failure.
ListenerManager_create_reports_failed(c, l, f) ==
    IF Protocol(l) \notin ovn_native_protocols
    THEN failed_completion(c, <<"listener", l>>)
    ELSE
    LET c1 == Exec(c, "lb_add", f, lb_add(c.st, l, Vip(l), <<>>))
    IN  IF Raised(c1) THEN c1
        ELSE failed_completion(c1, <<"listener", l>>)

ListenerManager_create(c, l, f) ==
    IF Protocol(l) \notin ovn_native_protocols
    THEN failed_completion(c, <<"listener", l>>)
    ELSE
    LET c1 == Exec(c, "lb_add", f, lb_add(c.st, l, Vip(l), <<>>))
        c2 == AttachSegment(c1, vip_subnet_id, l, f)
    IN  IF Raised(c1) THEN c1
        ELSE IF Raised(c2) THEN c2
        ELSE successful_completion(c2, <<"listener", l>>, FALSE)

ListenerManager_update(c, l) ==
    IF Protocol(l) \notin ovn_native_protocols
    THEN failed_completion(c, <<"listener", l>>)
    ELSE successful_completion(c, <<"listener", l>>, FALSE)

ListenerManager_delete(c, l, f) ==
    IF Protocol(l) \notin ovn_native_protocols
    THEN successful_completion(c, <<"listener", l>>, TRUE)
    ELSE
    LET c1 == Call(c, "db_find", f)
        ovn_lb == find_ovn_lb(db_find(c1.st, l))
        c2 == DetachSegment(c1, vip_subnet_id, l, f)
        c3 == Exec(c2, "lb_del", f, lb_del(c2.st, l))
    IN  IF Raised(c1) THEN c1
        ELSE IF ovn_lb = None THEN failed_completion(c1, <<"listener", l>>)
        ELSE IF Raised(c2) THEN c2
        ELSE IF Raised(c3) THEN c3
        ELSE successful_completion(c3, <<"listener", l>>, TRUE)

\* The subnets of every member of the pool, the member itself included.
_get_s_ids_of_all_members(members, member) == {SubnetOf(m) : m \in members}
\* MemberManager._get_s_ids_of_other_members: members is member.pool.members
_get_s_ids_of_other_members(members, member) ==
    {SubnetOf(m) : m \in {x \in members : x # member}}

MemberManager_create(c, m, members, f) ==
    IF Protocol(ListenerOf(m)) \notin ovn_native_protocols
    THEN failed_completion(c, <<"member", m>>)
    ELSE
    LET l == ListenerOf(m)
        vip == Vip(l)
        ip == Ip(m)
        c1 == Call(c, "get_subnet", f)
        c2 == Call(c1, "db_find", f)
        ovn_lb == find_ovn_lb(db_find(c2.st, l))
        field == ovn_lb.vips[vip]
        vip_listener_ips == Append(decode(field), ip)
        c3 == Exec(c2, "lb_add", f, lb_add(c2.st, ovn_lb.name, vip, vip_listener_ips))
        c4 == IF SubnetOf(m) \notin _get_s_ids_of_other_members(members, m)
              THEN AttachSegment(c3, SubnetOf(m), ovn_lb.name, f)
              ELSE c3
    IN  IF Raised(c1) THEN c1
        ELSE IF Raised(c2) THEN c2
        ELSE IF ovn_lb = None THEN failed_completion(c2, <<"member", m>>)
        ELSE IF vip \notin DOMAIN ovn_lb.vips THEN Raise(c2, "KeyError")
        ELSE IF Raised(c3) THEN c3
        ELSE IF Raised(c4) THEN c4
        ELSE successful_completion(c4, <<"member", m>>, FALSE)

MemberManager_update(c, m) ==
    IF Protocol(ListenerOf(m)) \notin ovn_native_protocols
    THEN failed_completion(c, <<"member", m>>)
    ELSE successful_completion(c, <<"member", m>>, FALSE)

MemberManager_delete(c, m, members, f) ==
    IF Protocol(ListenerOf(m)) \notin ovn_native_protocols
    THEN successful_completion(c, <<"member", m>>, TRUE)
    ELSE
    LET l == ListenerOf(m)
        vip == Vip(l)
        ip == Ip(m)
        c1 == Call(c, "db_find", f)
        ovn_lb == find_ovn_lb(db_find(c1.st, l))
        vip_listener_ips == split(ovn_lb.vips[vip])
        c2 == Exec(c1, "lb_add", f,
                   lb_add(c1.st, ovn_lb.name, vip, remove(vip_listener_ips, ip)))
        c3 == IF SubnetOf(m) \notin _get_s_ids_of_other_members(members, m)
              THEN DetachSegment(c2, SubnetOf(m), ovn_lb.name, f)
              ELSE c2
    IN  IF Raised(c1) THEN c1
        ELSE IF ovn_lb = None THEN c1
        ELSE IF vip \notin DOMAIN ovn_lb.vips THEN Raise(c1, "KeyError")
        ELSE IF ~InList(ip, vip_listener_ips) THEN c1
        ELSE IF Raised(c2) THEN c2
        ELSE IF Raised(c3) THEN c3
        ELSE successful_completion(c3, <<"member", m>>, TRUE)

\* ------------------------------------------------------ driver_octavia.py
\* super(Manager, self).<op>(...): the event goes to the Octavia manager.
Base(c, mgr, op, id) == [c EXCEPT !.base = Append(@, <<mgr, op, id>>)]

\* OVNDriver.find_ovn_lb: the result of db_find as it is, a list.
Octavia_find_ovn_lb(ovn_lb) == ovn_lb

Octavia_ListenerManager_create(c, l, f) ==
    IF Protocol(l) \notin ovn_native_protocols
    THEN Base(c, "listener", "create", l)
    ELSE Exec(c, "lb_add", f, lb_add(c.st, l, Vip(l), <<>>))

Octavia_ListenerManager_update(c, l) ==
    IF Protocol(l) \notin ovn_native_protocols
    THEN Base(c, "listener", "update", l)
    ELSE c

\* A found list is not a row: reading its uuid raises before lb_del is issued.
Octavia_ListenerManager_delete(c, l, f) ==
    IF Protocol(l) \notin ovn_native_protocols
    THEN Base(c, "listener", "delete", l)
    ELSE
    LET c1 == Call(c, "db_find", f)
        ovn_lb == Octavia_find_ovn_lb(db_find(c1.st, l))
    IN  IF Raised(c1) THEN c1
        ELSE IF ovn_lb = <<>> THEN c1
        ELSE Raise(c1, "AttributeError")

Octavia_PoolManager_create(c, l) ==
    IF Protocol(l) \notin ovn_native_protocols
    THEN Base(c, "pool", "create", l)
    ELSE c
Octavia_PoolManager_update(c, l) ==
    IF Protocol(l) \notin ovn_native_protocols
    THEN Base(c, "pool", "update", l)
    ELSE c
Octavia_PoolManager_delete(c, l) ==
    IF Protocol(l) \notin ovn_native_protocols
    THEN Base(c, "pool", "delete", l)
    ELSE c

\* A found list is not a row: reading its vips raises before lb_add is issued.
Octavia_MemberManager_create(c, m, f) ==
    IF Protocol(ListenerOf(m)) \notin ovn_native_protocols
    THEN Base(c, "member", "create", m)
    ELSE
    LET c1 == Call(c, "get_subnet", f)
        c2 == Call(c1, "db_find", f)
        ovn_lb == Octavia_find_ovn_lb(db_find(c2.st, ListenerOf(m)))
    IN  IF Raised(c1) THEN c1
        ELSE IF Raised(c2) THEN c2
        ELSE IF ovn_lb = <<>> THEN c2
        ELSE Raise(c2, "AttributeError")

\* The non-native branch passes `pool`, which is not bound, to the base.
Octavia_MemberManager_update(c, m) ==
    IF Protocol(ListenerOf(m)) \notin ovn_native_protocols
    THEN Raise(c, "NameError")
    ELSE c

\* The native branch reads member.pool.lprotocol_port, which no pool has.
Octavia_MemberManager_delete(c, m) ==
    IF Protocol(ListenerOf(m)) \notin ovn_native_protocols
    THEN Base(c, "member", "delete", m)
    ELSE Raise(c, "AttributeError")

\* ------------------------------------------------------------ the state
VARIABLES
    variant,    \* the driver the deployment runs: "native" (driver.py) or "octavia"
    lb,         \* the host holds the load balancer
    listeners,  \* the listeners the host holds
    pools,      \* the listeners whose pool the host holds
    hms,        \* the pools whose health monitor the host holds
    members,    \* the members the host holds (member.pool.members, by pool)
    store,      \* the Load_Balancer rows of the northbound store, by name
    faults,     \* the calls that have failed so far
    retries,    \* the events delivered a second time so far
    ev,         \* the last event dispatched: <<manager, operation, id>>
    pre,        \* the store when its handler started
    signals,    \* the completion signals its handler emitted
    calls,      \* the store and inventory calls its handler issued
    exc,        \* the exception that ended its handler, or "none"
    base,       \* the calls its handler handed to the base implementation
    redelivered, \* the last dispatch repeated the event before it
    found,      \* SpecFind: a db_find result
    find_res,   \* SpecFind: what find_ovn_lb made of it
    race,       \* SpecRace: two member handlers in flight: where each is, what it holds
    codec       \* SpecCodec: an endpoint list, and what a handler read back from its field

host == <<lb, listeners, pools, hms, members>>
inv == <<ev, pre, signals, calls, exc, base, redelivered>>
vars == <<variant, host, store, faults, retries, inv, found, find_res, race, codec>>

Variants == {"native", "octavia"}
\* The position of the call that fails in a handler: none, or one of the at
\* most six calls a handler issues (MemberManager.create).
FaultPoints == 0 .. 6

PoolMembers(l) == {m \in members : ListenerOf(m) = l}

\* The handler the host dispatches event e to, run on store st; f is the call
\* that fails.
Handle(e, st, f) ==
    LET c == Ctx0(st)
        mgr == e[1]
        op == e[2]
        id == e[3]
    IN
    IF variant = "native" THEN
      CASE mgr = "loadbalancer" /\ op = "create" -> LoadBalancerManager_create(c, <<mgr, id>>)
        [] mgr = "loadbalancer" /\ op = "update" -> LoadBalancerManager_update(c, <<mgr, id>>)
        [] mgr = "loadbalancer" /\ op = "delete" -> LoadBalancerManager_delete(c, <<mgr, id>>)
        [] mgr = "healthmonitor" /\ op = "create" -> HealthMonitorManager_create(c, <<mgr, id>>)
        [] mgr = "healthmonitor" /\ op = "update" -> HealthMonitorManager_update(c, <<mgr, id>>)
        [] mgr = "healthmonitor" /\ op = "delete" -> HealthMonitorManager_delete(c, <<mgr, id>>)
        [] mgr = "pool" /\ op = "create" -> PoolManager_create(c, <<mgr, id>>)
        [] mgr = "pool" /\ op = "update" -> PoolManager_update(c, <<mgr, id>>)
        [] mgr = "pool" /\ op = "delete" -> PoolManager_delete(c, <<mgr, id>>)
        [] mgr = "listener" /\ op = "create" -> ListenerManager_create(c, id, f)
        [] mgr = "listener" /\ op = "update" -> ListenerManager_update(c, id)
        [] mgr = "listener" /\ op = "delete" -> ListenerManager_delete(c, id, f)
        [] mgr = "member" /\ op = "create" ->
               MemberManager_create(c, id, PoolMembers(ListenerOf(id)) \cup {id}, f)
        [] mgr = "member" /\ op = "update" -> MemberManager_update(c, id)
        [] mgr = "member" /\ op = "delete" ->
               MemberManager_delete(c, id, PoolMembers(ListenerOf(id)), f)
    ELSE
      CASE mgr = "listener" /\ op = "create" -> Octavia_ListenerManager_create(c, id, f)
        [] mgr = "listener" /\ op = "update" -> Octavia_ListenerManager_update(c, id)
        [] mgr = "listener" /\ op = "delete" -> Octavia_ListenerManager_delete(c, id, f)
        [] mgr = "pool" /\ op = "create" -> Octavia_PoolManager_create(c, id)
        [] mgr = "pool" /\ op = "update" -> Octavia_PoolManager_update(c, id)
        [] mgr = "pool" /\ op = "delete" -> Octavia_PoolManager_delete(c, id)
        [] mgr = "member" /\ op = "create" -> Octavia_MemberManager_create(c, id, f)
        [] mgr = "member" /\ op = "update" -> Octavia_MemberManager_update(c, id)
        [] mgr = "member" /\ op = "delete" -> Octavia_MemberManager_delete(c, id)
        [] OTHER -> Base(c, mgr, op, id)

\* ------------------------------------------------------------ the events
NoEvent == <<"none", "none", "none">>
\* The two handlers of SpecRace, none of them started.
Handlers == {1, 2}
NoRace == [pc |-> [p \in Handlers |-> "idle"],
           op |-> [p \in Handlers |-> "none"],
           m |-> [p \in Handlers |-> 0],
           ips |-> [p \in Handlers |-> <<>>],
           signals |-> [p \in Handlers |-> <<>>],
           interleaved |-> FALSE]
\* No list handed to the codec.
NoCodec == [ips |-> <<>>, path |-> "unset", out |-> <<>>]

Init ==
    /\ variant \in Variants
    /\ lb = FALSE
    /\ listeners = {}
    /\ pools = {}
    /\ hms = {}
    /\ members = {}
    /\ store = EmptyStore
    /\ faults = 0
    /\ retries = 0
    /\ ev = NoEvent
    /\ pre = EmptyStore
    /\ signals = <<>>
    /\ calls = <<>>
    /\ exc = "none"
    /\ base = <<>>
    /\ redelivered = FALSE
    /\ found = <<>>
    /\ find_res = [kind |-> "unset"]
    /\ race = NoRace
    /\ codec = NoCodec

\* The host dispatches event e and the handler runs to its end; its f-th call
\* fails.
Dispatch(e, f) ==
    LET c == Handle(e, store, f)
    IN  /\ (f # 0 => faults < MaxFaults /\ c.exc = "StoreError")
        /\ ev' = e
        /\ pre' = store
        /\ store' = c.st
        /\ signals' = c.signals
        /\ calls' = c.calls
        /\ exc' = c.exc
        /\ base' = c.base
        /\ faults' = IF c.exc = "StoreError" THEN faults + 1 ELSE faults
        /\ redelivered' = FALSE
        /\ UNCHANGED <<variant, retries, found, find_res, race, codec>>

\* The host drops an object when its delete completed: the handler reported
\* successful_completion(obj, delete=True), or the base implementation took it.
Gone(sigs, bs, mgr, id) ==
    \/ \E i \in 1 .. Len(sigs) : sigs[i] = [kind |-> "successful",
                                           entity |-> <<mgr, id>>, deleted |-> TRUE]
    \/ \E i \in 1 .. Len(bs) : bs[i] = <<mgr, "delete", id>>

LoadBalancerCreate ==
    /\ ~lb
    /\ Dispatch(<<"loadbalancer", "create", "lb">>, 0)
    /\ lb' = TRUE
    /\ UNCHANGED <<listeners, pools, hms, members>>

LoadBalancerUpdate ==
    /\ lb
    /\ Dispatch(<<"loadbalancer", "update", "lb">>, 0)
    /\ UNCHANGED host

LoadBalancerDelete ==
    /\ lb
    /\ listeners = {}
    /\ Dispatch(<<"loadbalancer", "delete", "lb">>, 0)
    /\ lb' = ~Gone(signals', base', "loadbalancer", "lb")
    /\ UNCHANGED <<listeners, pools, hms, members>>

ListenerCreate(l, f) ==
    /\ lb
    /\ l \notin listeners
    /\ Cardinality(listeners) < MaxListeners
    /\ Dispatch(<<"listener", "create", l>>, f)
    /\ listeners' = listeners \cup {l}
    /\ UNCHANGED <<lb, pools, hms, members>>

ListenerUpdate(l) ==
    /\ l \in listeners
    /\ Dispatch(<<"listener", "update", l>>, 0)
    /\ UNCHANGED host

\* The host deletes a listener after its pool.
ListenerDelete(l, f) ==
    /\ l \in listeners
    /\ l \notin pools
    /\ Dispatch(<<"listener", "delete", l>>, f)
    /\ listeners' = IF Gone(signals', base', "listener", l)
                    THEN listeners \ {l} ELSE listeners
    /\ UNCHANGED <<lb, pools, hms, members>>

PoolCreate(l) ==
    /\ l \in listeners
    /\ l \notin pools
    /\ Dispatch(<<"pool", "create", l>>, 0)
    /\ pools' = pools \cup {l}
    /\ UNCHANGED <<lb, listeners, hms, members>>

PoolUpdate(l) ==
    /\ l \in pools
    /\ Dispatch(<<"pool", "update", l>>, 0)
    /\ UNCHANGED host

\* The host deletes a pool after its members and its health monitor.
PoolDelete(l) ==
    /\ l \in pools
    /\ l \notin hms
    /\ PoolMembers(l) = {}
    /\ Dispatch(<<"pool", "delete", l>>, 0)
    /\ pools' = IF Gone(signals', base', "pool", l) THEN pools \ {l} ELSE pools
    /\ UNCHANGED <<lb, listeners, hms, members>>

HealthMonitorCreate(l) ==
    /\ l \in pools
    /\ l \notin hms
    /\ Cardinality(hms) < MaxHealthMonitors
    /\ Dispatch(<<"healthmonitor", "create", l>>, 0)
    /\ hms' = hms \cup {l}
    /\ UNCHANGED <<lb, listeners, pools, members>>

HealthMonitorUpdate(l) ==
    /\ l \in hms
    /\ Dispatch(<<"healthmonitor", "update", l>>, 0)
    /\ UNCHANGED host

HealthMonitorDelete(l) ==
    /\ l \in hms
    /\ Dispatch(<<"healthmonitor", "delete", l>>, 0)
    /\ hms' = IF Gone(signals', base', "healthmonitor", l) THEN hms \ {l} ELSE hms
    /\ UNCHANGED <<lb, listeners, pools, members>>

MemberCreate(m, f) ==
    /\ ListenerOf(m) \in pools
    /\ m \notin members
    /\ Dispatch(<<"member", "create", m>>, f)
    /\ members' = members \cup {m}
    /\ UNCHANGED <<lb, listeners, pools, hms>>

MemberUpdate(m) ==
    /\ m \in members
    /\ Dispatch(<<"member", "update", m>>, 0)
    /\ UNCHANGED host

MemberDelete(m, f) ==
    /\ m \in members
    /\ Dispatch(<<"member", "delete", m>>, f)
    /\ members' = IF Gone(signals', base', "member", m)
                  THEN members \ {m} ELSE members
    /\ UNCHANGED <<lb, listeners, pools, hms>>

\* One event at a time, each handler running to its end; F: the calls that
\* may fail.
Step(F) ==
    \/ LoadBalancerCreate
    \/ LoadBalancerUpdate
    \/ LoadBalancerDelete
    \/ \E l \in Listeners :
          \/ \E f \in F : ListenerCreate(l, f)
          \/ ListenerUpdate(l)
          \/ \E f \in F : ListenerDelete(l, f)
          \/ PoolCreate(l)
          \/ PoolUpdate(l)
          \/ PoolDelete(l)
          \/ HealthMonitorCreate(l)
          \/ HealthMonitorUpdate(l)
          \/ HealthMonitorDelete(l)
    \/ \E m \in Members :
          \/ \E f \in F : MemberCreate(m, f)
          \/ MemberUpdate(m)
          \/ \E f \in F : MemberDelete(m, f)

\* No call fails.
Next == Step({0})
Spec == Init /\ [][Next]_vars

\* Store and inventory calls may fail, MaxFaults times.
NextFault == Step(FaultPoints)
SpecFault == Init /\ [][NextFault]_vars

\* The host delivers the last event once more, right after the first delivery
\* (a retried request): the same handler runs on the store as it is now.
Redeliver ==
    LET c == Handle(ev, store, 0)
    IN  /\ ev # NoEvent
        /\ ~redelivered
        /\ retries < MaxRedeliveries
        /\ retries' = retries + 1
        /\ redelivered' = TRUE
        /\ pre' = store
        /\ store' = c.st
        /\ signals' = c.signals
        /\ calls' = c.calls
        /\ exc' = c.exc
        /\ base' = c.base
        /\ lb' = (lb /\ ~Gone(c.signals, c.base, "loadbalancer", "lb"))
        /\ listeners' = {l \in listeners : ~Gone(c.signals, c.base, "listener", l)}
        /\ pools' = {l \in pools : ~Gone(c.signals, c.base, "pool", l)}
        /\ hms' = {l \in hms : ~Gone(c.signals, c.base, "healthmonitor", l)}
        /\ members' = {m \in members : ~Gone(c.signals, c.base, "member", m)}
        /\ UNCHANGED <<variant, faults, ev, found, find_res, race, codec>>

NextRetry == Next \/ Redeliver
SpecRetry == Init /\ [][NextRetry]_vars

\* ------------------------------------------------ find_ovn_lb on its own
\* The rows a db_find by name "L1" may return: the store does not keep names
\* unique, so another writer's rows may share the name.
FoundRows ==
    {NewRow("L1"),
     SetVip(NewRow("L1"), Vip("L1"), <<>>),
     [SetVip(NewRow("L1"), Vip("L1"), <<Ip(1)>>) EXCEPT !.segs = {LsName("S1")}]}
FoundLists == UNION {[1 .. n -> FoundRows] : n \in 0 .. MaxRows}

InitFind ==
    /\ variant \in Variants
    /\ lb = FALSE
    /\ listeners = {}
    /\ pools = {}
    /\ hms = {}
    /\ members = {}
    /\ store = EmptyStore
    /\ faults = 0
    /\ retries = 0
    /\ ev = NoEvent
    /\ pre = EmptyStore
    /\ signals = <<>>
    /\ calls = <<>>
    /\ exc = "none"
    /\ base = <<>>
    /\ redelivered = FALSE
    /\ found \in FoundLists
    /\ find_res = [kind |-> "unset"]
    /\ race = NoRace
    /\ codec = NoCodec

\* find_ovn_lb returns; neither driver has a raise on this path.
Find ==
    /\ find_res.kind = "unset"
    /\ find_res' = [kind |-> "return",
                    value |-> IF variant = "native" THEN find_ovn_lb(found)
                              ELSE Octavia_find_ovn_lb(found)]
    /\ UNCHANGED <<variant, host, store, faults, retries, inv, found, race, codec>>

NextFind == Find
SpecFind == InitFind /\ [][NextFind]_vars

\* ------------------------------------- two member handlers at the same time
\* Two MemberManager handlers of the native-only driver run at once on the
\* pool under L1. Each store round trip is a step of its own: find_ovn_lb
\* (db_find), lb_add, and the ls_lb_add or ls_lb_del that ends the handler.
RaceListener == "L1"
RaceMembers == {m \in Members : ListenerOf(m) = RaceListener}
Other(p) == CHOOSE q \in Handlers : q # p

\* The store after the listener and the members ms were created one after
\* the other, each handler running to its end.
RECURSIVE SeededStore(_)
SeededStore(ms) ==
    IF ms = <<>>
    THEN ListenerManager_create(Ctx0(EmptyStore), RaceListener, 0).st
    ELSE MemberManager_create(Ctx0(SeededStore(SubSeq(ms, 1, Len(ms) - 1))),
                              ms[Len(ms)], {ms[i] : i \in 1 .. Len(ms)}, 0).st
SeedOrders ==
    {s \in UNION {[1 .. n -> RaceMembers] : n \in 0 .. MaxSeeded} :
        \A i, j \in 1 .. Len(s) : s[i] = s[j] => i = j}

InitRace ==
    /\ variant = "native"
    /\ lb = TRUE
    /\ listeners = {RaceListener}
    /\ pools = {RaceListener}
    /\ hms = {}
    /\ \E s \in SeedOrders :
          /\ members = {s[i] : i \in 1 .. Len(s)}
          /\ store = SeededStore(s)
    /\ faults = 0
    /\ retries = 0
    /\ ev = NoEvent
    /\ pre = EmptyStore
    /\ signals = <<>>
    /\ calls = <<>>
    /\ exc = "none"
    /\ base = <<>>
    /\ redelivered = FALSE
    /\ found = <<>>
    /\ find_res = [kind |-> "unset"]
    /\ race = NoRace
    /\ codec = NoCodec

\* A step of handler p falls between the other handler's find and its lb_add.
InWindow(p) == race.interleaved \/ race.pc[Other(p)] = "lb_add"

\* The host hands member m to handler p: a create for a member it has just
\* stored, a delete for one it holds. The other handler works on another
\* member.
RaceDispatch(p, op, m) ==
    /\ race.pc[p] = "idle"
    /\ race.m[Other(p)] # m
    /\ IF op = "create" THEN m \notin members ELSE m \in members
    /\ members' = IF op = "create" THEN members \cup {m} ELSE members
    /\ race' = [race EXCEPT !.pc[p] = "find", !.op[p] = op, !.m[p] = m]
    /\ UNCHANGED <<variant, lb, listeners, pools, hms, store, faults, retries,
                   inv, found, find_res, codec>>

\* find_ovn_lb and the decoding of the list: create appends, delete removes,
\* both on the handler's own copy.
RaceFind(p) ==
    LET m == race.m[p]
        vip == Vip(ListenerOf(m))
        ip == Ip(m)
        ovn_lb == find_ovn_lb(db_find(store, ListenerOf(m)))
        field == ovn_lb.vips[vip]
    IN  /\ race.pc[p] = "find"
        /\ race' =
             IF ovn_lb = None
             THEN [race EXCEPT !.pc[p] = "done",
                               !.signals[p] =
                                   IF race.op[p] = "create"
                                   THEN failed_completion(Ctx0(store), <<"member", m>>).signals
                                   ELSE <<>>,
                               !.interleaved = InWindow(p)]
             ELSE IF race.op[p] = "create"
             THEN [race EXCEPT !.pc[p] = "lb_add",
                               !.ips[p] = Append(decode(field), ip),
                               !.interleaved = InWindow(p)]
             ELSE IF ~InList(ip, split(field))
             THEN [race EXCEPT !.pc[p] = "done", !.interleaved = InWindow(p)]
             ELSE [race EXCEPT !.pc[p] = "lb_add",
                               !.ips[p] = remove(split(field), ip),
                               !.interleaved = InWindow(p)]
        /\ UNCHANGED <<variant, host, store, faults, retries, inv, found,
                       find_res, codec>>

\* lb_add(ovn_lb.name, vip, vip_listener_ips): the handler's copy replaces
\* the stored list.
RaceLbAdd(p) ==
    LET l == ListenerOf(race.m[p])
    IN  /\ race.pc[p] = "lb_add"
        /\ store' = lb_add(store, l, Vip(l), race.ips[p])
        /\ race' = [race EXCEPT !.pc[p] = "segment", !.interleaved = InWindow(p)]
        /\ UNCHANGED <<variant, host, faults, retries, inv, found, find_res, codec>>

\* The sibling test on member.pool.members, the ls_lb_add or ls_lb_del, and
\* the successful completion; the host drops a deleted member.
RaceSegment(p) ==
    LET m == race.m[p]
        l == ListenerOf(m)
        del == race.op[p] = "delete"
        alone == SubnetOf(m) \notin _get_s_ids_of_other_members(members, m)
    IN  /\ race.pc[p] = "segment"
        /\ store' = IF ~alone THEN store
                    ELSE IF del THEN ls_lb_del(store, LsName(SubnetOf(m)), l)
                    ELSE ls_lb_add(store, LsName(SubnetOf(m)), l)
        /\ members' = IF del THEN members \ {m} ELSE members
        /\ race' = [race EXCEPT
                      !.pc[p] = "done",
                      !.signals[p] =
                          successful_completion(Ctx0(store), <<"member", m>>, del).signals,
                      !.interleaved = InWindow(p)]
        /\ UNCHANGED <<variant, lb, listeners, pools, hms, faults, retries,
                       inv, found, find_res, codec>>

NextRace ==
    \E p \in Handlers :
        \/ \E op \in {"create", "delete"} : \E m \in RaceMembers : RaceDispatch(p, op, m)
        \/ RaceFind(p)
        \/ RaceLbAdd(p)
        \/ RaceSegment(p)
SpecRace == InitRace /\ [][NextRace]_vars
\* ----------------------------------------------- the codec on its own
\* A list of endpoints is stored as lb_add stores it and read back as member
\* create and member delete read it. Both drivers read the same way.
CodecEndpoints == {Ip(1), Ip(2), Ip(3)}
CodecLists == UNION {[1 .. n -> CodecEndpoints] : n \in 0 .. MaxEndpoints}

InitCodec ==
    /\ variant \in Variants
    /\ lb = FALSE
    /\ listeners = {}
    /\ pools = {}
    /\ hms = {}
    /\ members = {}
    /\ store = EmptyStore
    /\ faults = 0
    /\ retries = 0
    /\ ev = NoEvent
    /\ pre = EmptyStore
    /\ signals = <<>>
    /\ calls = <<>>
    /\ exc = "none"
    /\ base = <<>>
    /\ redelivered = FALSE
    /\ found = <<>>
    /\ find_res = [kind |-> "unset"]
    /\ race = NoRace
    /\ \E ips \in CodecLists : codec = [ips |-> ips, path |-> "unset", out |-> <<>>]

\* MemberManager.create: vip_listener_ips = field.split(',') if field else []
CodecCreate ==
    /\ codec.path = "unset"
    /\ codec' = [codec EXCEPT !.path = "create", !.out = decode(join(codec.ips))]
    /\ UNCHANGED <<variant, host, store, faults, retries, inv, found, find_res, race>>

\* MemberManager.delete: vip_listener_ips = field.split(',')
CodecDelete ==
    /\ codec.path = "unset"
    /\ codec' = [codec EXCEPT !.path = "delete", !.out = split(join(codec.ips))]
    /\ UNCHANGED <<variant, host, store, faults, retries, inv, found, find_res, race>>

NextCodec == CodecCreate \/ CodecDelete
SpecCodec == InitCodec /\ [][NextCodec]_vars
\* ------------------------------------------------------------ the claims
Native == variant = "native"
EvIs(mgr, op) == ev[1] = mgr /\ ev[2] = op
\* The listener the last event's object is under.
EvListener == IF ev[1] = "member" THEN ListenerOf(ev[3]) ELSE ev[3]
EvGated == ev[1] \in {"listener", "pool", "member"}
EvNative == EvGated /\ Protocol(EvListener) \in ovn_native_protocols
EvNonNative == EvGated /\ Protocol(EvListener) \notin ovn_native_protocols
Failed(obj) == [kind |-> "failed", entity |-> obj, deleted |-> FALSE]
Successful(obj, del) == [kind |-> "successful", entity |-> obj, deleted |-> del]
Issued(op) == Cardinality({i \in 1 .. Len(calls) : calls[i] = op})
HasRow(l) == store[l] # <<>>
\* The endpoint list stored under listener l's virtual-IP socket.
Endpoints(l) == decode(store[l][1].vips[Vip(l)])
NoDuplicate(xs) == \A i, j \in 1 .. Len(xs) : xs[i] = xs[j] => i = j
OnSegment(l, seg) == \E m \in PoolMembers(l) : LsName(SubnetOf(m)) = seg

\* C1: in the native-only driver, after listener-create, member-create and
\* member-delete events on a native listener L, a segment is attached to L's
\* row if and only if a member in the pool under L is on a subnet that maps
\* to that segment.
C1_SegmentIffMember ==
    Native =>
      \A l \in listeners :
        (Protocol(l) \in ovn_native_protocols /\ HasRow(l)) =>
          \A seg \in Segments : seg \in store[l][1].segs <=> OnSegment(l, seg)

\* C2: in the native-only driver, with every event handled to its end and no
\* call failing, the endpoint list under a native listener's virtual-IP
\* socket holds exactly the address:port of the members in the pool under it,
\* each once.
C2_EndpointsAreMembers ==
    Native =>
      \A l \in listeners :
        Protocol(l) \in ovn_native_protocols =>
          /\ HasRow(l)
          /\ Vip(l) \in DOMAIN store[l][1].vips
          /\ NoDuplicate(Endpoints(l))
          /\ {Endpoints(l)[i] : i \in 1 .. Len(Endpoints(l))}
               = {Ip(m) : m \in PoolMembers(l)}

\* C2's case: a member delete left two of three endpoints under L1.
C2_Witness ==
    /\ Native
    /\ EvIs("member", "delete")
    /\ signals = <<Successful(<<"member", ev[3]>>, TRUE)>>
    /\ HasRow("L1")
    /\ Len(Endpoints("L1")) = 2
    /\ Cardinality(PoolMembers("L1")) = 2

\* C3: in the native-only driver, every handler invocation ends having
\* emitted exactly one completion signal.
C3_ExactlyOneSignal == (Native /\ ev # NoEvent) => Len(signals) = 1

\* C4: in both drivers a listener, pool or member event with a protocol that
\* is not native issues no store call, and in the fallback-capable driver it
\* is handed to the base implementation.
C4_NonNativeNoStoreCall ==
    EvNonNative =>
      /\ calls = <<>>
      /\ store = pre
      /\ (variant = "octavia" => base = <<ev>>)

\* C5: in the native-only driver a listener, pool or member event with a
\* protocol that is not native is reported failed for that entity.
C5_NonNativeFailed ==
    (Native /\ EvNonNative) => signals = <<Failed(<<ev[1], ev[3]>>)>>

\* C6: when a store or inventory call inside a handler fails, the store is as
\* it was before the handler started.
C6_FailureLeavesStore == exc = "StoreError" => store = pre

\* C7: in the native-only driver, a native listener delete, member create or
\* member delete that finds no row named by the listener id emits a failed
\* completion and writes nothing.
C7_MissingRowFails ==
    ( /\ Native
      /\ EvNative
      /\ EvIs("listener", "delete") \/ EvIs("member", "create") \/ EvIs("member", "delete")
      /\ pre[EvListener] = <<>>
      /\ exc = "none" ) =>
        /\ signals = <<Failed(<<ev[1], ev[3]>>)>>
        /\ store = pre

\* C8: when db_find returns two or more rows for the listener id, find_ovn_lb
\* raises; it returns neither a row nor None.
C8_FindRaisesOnDuplicates ==
    (find_res.kind # "unset" /\ Len(found) >= 2) => find_res.kind = "raise"

\* C9: in the native-only driver a successful native member create issues one
\* ls_lb_add when no other member of the pool is on the member's subnet and
\* none otherwise, and no ls_lb_del; a successful native member delete issues
\* one ls_lb_del when no other member of the pool is on its subnet and none
\* otherwise, and no ls_lb_add.
C9_AttachDetachCounts ==
    LET m == ev[3]
        alone == \A x \in PoolMembers(ListenerOf(m)) \ {m} : SubnetOf(x) # SubnetOf(m)
    IN  /\ ( /\ Native /\ EvNative /\ EvIs("member", "create")
             /\ signals = <<Successful(<<"member", m>>, FALSE)>> ) =>
               /\ Issued("ls_lb_add") = IF alone THEN 1 ELSE 0
               /\ Issued("ls_lb_del") = 0
        /\ ( /\ Native /\ EvNative /\ EvIs("member", "delete")
             /\ signals = <<Successful(<<"member", m>>, TRUE)>> ) =>
               /\ Issued("ls_lb_del") = IF alone THEN 1 ELSE 0
               /\ Issued("ls_lb_add") = 0

\* C9's case: member 2 was created beside member 1 on the same subnet, with
\* no attach.
C9_Witness ==
    /\ Native
    /\ ev = <<"member", "create", 2>>
    /\ 1 \in members
    /\ signals = <<Successful(<<"member", 2>>, FALSE)>>
    /\ Issued("ls_lb_add") = 0

\* C10: delivering the same native listener-create, member-create or
\* member-delete event twice in a row leaves the row as delivering it once.
C10_SecondDeliveryChangesNothing ==
    ( /\ Native
      /\ redelivered
      /\ EvNative
      /\ EvIs("listener", "create") \/ EvIs("member", "create") \/ EvIs("member", "delete") )
      => store = pre

\* C11: in the native-only driver, after a native listener create ran to its
\* end, a row named by the listener id exists, its entry for the socket
\* vip_address:protocol_port holds an empty endpoint list, the segment of the
\* load balancer's virtual-IP subnet is attached to the row, and one
\* successful completion has been reported for the listener.
C11_ListenerCreateResult ==
    ( /\ Native
      /\ EvIs("listener", "create")
      /\ EvNative
      /\ exc = "none" ) =>
        /\ HasRow(ev[3])
        /\ store[ev[3]][1].name = ev[3]
        /\ Vip(ev[3]) \in DOMAIN store[ev[3]][1].vips
        /\ store[ev[3]][1].vips[Vip(ev[3])] = <<>>
        /\ LsName(vip_subnet_id) \in store[ev[3]][1].segs
        /\ signals = <<Successful(<<"listener", ev[3]>>, FALSE)>>

\* C11's case: listener L2 was created where no row L2 existed, beside the
\* row of L1.
C11_Witness ==
    /\ Native
    /\ ev = <<"listener", "create", "L2">>
    /\ exc = "none"
    /\ pre["L2"] = <<>>
    /\ HasRow("L1")
    /\ calls = <<"lb_add", "get_subnet", "ls_get", "ls_lb_add">>

\* A call of the last invocation raised: Call records the exception, and no
\* handler has an except clause that would clear it.
CallFailed == calls # <<>> /\ exc = "StoreError"

\* C12: in the native-only driver, when a store transaction inside a native
\* handler fails, the handler emits one failed completion for the entity, the
\* error does not leave the handler, and the failed call is the last call
\* the handler issued (it is not tried again).
C12_StoreFailureReported ==
    (Native /\ EvNative /\ CallFailed) =>
        /\ signals = <<Failed(<<ev[1], ev[3]>>)>>
        /\ exc = "none"

\* Both handlers of SpecRace ended with a successful completion.
BothSucceeded ==
    \A p \in Handlers :
        /\ race.pc[p] = "done"
        /\ race.signals[p] =
             <<Successful(<<"member", race.m[p]>>, race.op[p] = "delete")>>
\* The stored list under L1 shows handler p's change.
Reflected(p) ==
    IF race.op[p] = "create"
    THEN InList(Ip(race.m[p]), Endpoints(RaceListener))
    ELSE ~InList(Ip(race.m[p]), Endpoints(RaceListener))

\* C13: two member create or delete handlers run at once on the same
\* virtual-IP socket, find and lb_add being separate round trips. When no
\* step of one handler falls between the other's find and its lb_add and both
\* report success, the stored list shows both changes: it holds exactly the
\* endpoints of the members the host holds. (That an interleaving loses an
\* update is C13_LostUpdate, a state the specification reaches.)
C13_NoLostUpdateWhenAtomic ==
    (BothSucceeded /\ ~race.interleaved) =>
        /\ \A p \in Handlers : Reflected(p)
        /\ {Endpoints(RaceListener)[i] : i \in 1 .. Len(Endpoints(RaceListener))}
             = {Ip(m) : m \in members}

\* C13's case: the two handlers interleaved, both reported success, and the
\* stored list shows the change of only one of them.
C13_LostUpdate ==
    /\ BothSucceeded
    /\ race.interleaved
    /\ \E p \in Handlers : ~Reflected(p) /\ Reflected(Other(p))

\* C14: in the native-only driver a native listener delete that ran to its
\* end and found a row named by the listener id issued ls_lb_del for the
\* virtual-IP subnet's segment, then lb_del, then reported success with
\* deleted = true, and no row named by the listener id is left; one that
\* found no row reported failure and changed nothing.
C14_ListenerDelete ==
    ( /\ Native
      /\ EvIs("listener", "delete")
      /\ EvNative
      /\ exc = "none" ) =>
        IF pre[ev[3]] # <<>>
        THEN /\ calls = <<"db_find", "get_subnet", "ls_get", "ls_lb_del", "lb_del">>
             /\ signals = <<Successful(<<"listener", ev[3]>>, TRUE)>>
             /\ ~HasRow(ev[3])
             /\ \A l \in Listeners \ {ev[3]} : store[l] = pre[l]
        ELSE /\ signals = <<Failed(<<"listener", ev[3]>>)>>
             /\ calls = <<"db_find">>
             /\ store = pre

\* C14's case: listener L1 was deleted while its row was attached to the
\* virtual-IP subnet's segment, beside the row of L2.
C14_Witness ==
    /\ Native
    /\ ev = <<"listener", "delete", "L1">>
    /\ exc = "none"
    /\ pre["L1"] # <<>>
    /\ LsName(vip_subnet_id) \in pre["L1"][1].segs
    /\ signals = <<Successful(<<"listener", "L1">>, TRUE)>>
    /\ ~HasRow("L1")
    /\ HasRow("L2")

\* C15: in the native-only driver, a successful delete of the only member
\* left under a native listener leaves the row in place, its virtual-IP
\* socket entry present and holding an empty list; and a member create on a
\* listener whose entry holds an empty list succeeds and leaves a list
\* holding exactly the new member's endpoint.
C15_EmptyListKept ==
    LET l == EvListener
        m == ev[3]
    IN  /\ ( /\ Native /\ EvNative /\ EvIs("member", "delete")
             /\ signals = <<Successful(<<"member", m>>, TRUE)>>
             /\ pre[l][1].vips[Vip(l)] = Ip(m) ) =>
               /\ HasRow(l)
               /\ Vip(l) \in DOMAIN store[l][1].vips
               /\ store[l][1].vips[Vip(l)] = <<>>
        /\ ( /\ Native /\ EvNative /\ EvIs("member", "create")
             /\ pre[l] # <<>>
             /\ Vip(l) \in DOMAIN pre[l][1].vips
             /\ pre[l][1].vips[Vip(l)] = <<>> ) =>
               /\ signals = <<Successful(<<"member", m>>, FALSE)>>
               /\ store[l][1].vips[Vip(l)] = Ip(m)
               /\ Endpoints(l) = <<Ip(m)>>

\* C15's case: member 4 was created under L2 on a row whose list a member
\* delete had emptied (that delete also took the row's last segment away,
\* which no listener create leaves behind).
C15_Witness ==
    /\ Native
    /\ ev = <<"member", "create", 4>>
    /\ pre["L2"] # <<>>
    /\ pre["L2"][1].vips[Vip("L2")] = <<>>
    /\ pre["L2"][1].segs = {}
    /\ signals = <<Successful(<<"member", 4>>, FALSE)>>
    /\ Endpoints("L2") = <<Ip(4)>>

\* C16: on both read paths, member create's and member delete's, decoding
\* the comma-joined field of a list of endpoints without commas gives the
\* same list in the same order; the empty list comes back as the empty list,
\* not as a list holding one empty string.
C16_CodecRoundTrip == codec.path # "unset" => codec.out = codec.ips

\* C17: in the native-only driver, a native member delete whose address:port
\* is not in the list stored under the listener's virtual-IP socket emits a
\* failed completion and leaves the list and the attached segments as they
\* were.
C17_AbsentEndpointFails ==
    LET l == EvListener
    IN  ( /\ Native /\ EvNative /\ EvIs("member", "delete")
          /\ exc = "none"
          /\ pre[l] # <<>>
          /\ Vip(l) \in DOMAIN pre[l][1].vips
          /\ ~InList(Ip(ev[3]), decode(pre[l][1].vips[Vip(l)])) ) =>
            /\ signals = <<Failed(<<"member", ev[3]>>)>>
            /\ store = pre

\* C18: in the native-only driver, from a native listener's create to its
\* delete the segment of the load balancer's virtual-IP subnet is attached
\* to the listener's row, whatever members were created or deleted since.
C18_VipSegmentStays ==
    Native =>
      \A l \in listeners :
        (Protocol(l) \in ovn_native_protocols /\ HasRow(l)) =>
          LsName(vip_subnet_id) \in store[l][1].segs

\* The store calls that write.
StoreWrites == {"lb_add", "lb_del", "ls_lb_add", "ls_lb_del"}

\* C19: in the native-only driver, an invocation that emitted a failed
\* completion issued no lb_add, lb_del, ls_lb_add or ls_lb_del, before or
\* after it, and left the store as it was when the handler started.
C19_FailedMeansUnwritten ==
    ( /\ Native
      /\ ev # NoEvent
      /\ \E i \in 1 .. Len(signals) : signals[i].kind = "failed" ) =>
        /\ \A i \in 1 .. Len(calls) : calls[i] \notin StoreWrites
        /\ store = pre

\* C19's case: a member create read the store, found no row for its listener
\* and reported failure.
C19_Witness ==
    /\ Native
    /\ EvIs("member", "create")
    /\ signals = <<Failed(<<"member", ev[3]>>)>>
    /\ calls = <<"get_subnet", "db_find">>
    /\ pre[EvListener] = <<>>

\* C20: in the native-only driver, a handler invoked for a listener, or for
\* a pool, health monitor or member under it, leaves the rows of every other
\* listener as they were: their endpoint lists and their attached segments,
\* also when the listeners are of one load balancer and share its
\* virtual-IP subnet.
C20_OtherRowsUntouched ==
    (Native /\ ev # NoEvent /\ ev[1] # "loadbalancer") =>
        \A l \in Listeners \ {EvListener} : store[l] = pre[l]

\* C20's case: the delete of member 4 took the virtual-IP subnet's segment
\* away from the row of L2, and the row of L1, attached to the same segment
\* and holding endpoints, is as it was.
C20_Witness ==
    /\ Native
    /\ ev = <<"member", "delete", 4>>
    /\ signals = <<Successful(<<"member", 4>>, TRUE)>>
    /\ LsName(vip_subnet_id) \in pre["L2"][1].segs
    /\ LsName(vip_subnet_id) \notin store["L2"][1].segs
    /\ HasRow("L1")
    /\ LsName(vip_subnet_id) \in store["L1"][1].segs
    /\ Endpoints("L1") # <<>>
    /\ store["L1"] = pre["L1"]
====
